---- MODULE Spec2Model ----
(***************************************************************************)
(* Model of bridge/eeg_ws_bridge.py (EEGBridge): the asyncio pipeline loop *)
(* (_stream_loop), one connection handler task per WebSocket (_handler),   *)
(* and the fan-out (_broadcast / _safe_send).  A step of the model is what *)
(* one task executes between two suspension points (await) of the event    *)
(* loop; tasks interleave only at those points.                            *)
(***************************************************************************)
EXTENDS Integers, Sequences, FiniteSets, TLC

\* ---- bounds of the model ------------------------------------------------
NConn  == 2        \* connections that may ever be accepted
MaxIdx == 1000     \* samples ingested in one run
MaxNow == 3000     \* milliseconds of loop time
MaxE   == 2        \* raw engagement values are drawn from 0..MaxE

\* ---- program constants --------------------------------------------------
GATE_STRIDE == 256
FS          == 125      \* BoardShim.get_sampling_rate of the Cyton/Daisy board
WINDOW_S    == 1
EEG_PULL_PERIOD_MS == 200
PosInf      == 1000000  \* math.inf
NegInf      == 0 - PosInf
None        == 0 - 1    \* Python None / JSON null (raw values are >= 0)
LOOP        == 0        \* the pipeline loop as a caller of _broadcast

Conn      == 1..NConn
Callers   == Conn \cup {LOOP}
EValues   == {0}     \* raw engagement of a window
ERange    == 0..MaxE
PullSizes == {100, 200, 310, 400}

VARIABLES
  clients,     \* self.clients
  mode,        \* self.mode
  Emin, Emax,  \* self.norm
  stop,        \* self._stop
  hpc,         \* per connection: position of its _handler task
  conn,        \* per connection: "new" | "open" | "closed"
  bc,          \* per caller: the _broadcast it awaits (the gather of _safe_send)
  io,          \* the socket traffic of the step just taken (NoIo if none)
  lpc,         \* position of _stream_loop
  board,       \* the acquisition session
  global_idx, next_gate, buflen, last_sec,   \* locals of _stream_loop
  evals,       \* the gated evaluations so far, in order
  obs,         \* the raw values observed since start or the last reset
  buf,         \* the window buffer: the runs of sample numbers it holds
  now,         \* time.monotonic() as last read by the loop, in milliseconds
  next_pull,   \* local of the loop: the next pull instant, in milliseconds
  disk,        \* engagement_norm.json
  calc         \* the last application of a pure function: inputs and result

vars == <<clients, mode, Emin, Emax, stop, hpc, conn, bc, io, lpc, board,
          global_idx, next_gate, buflen, last_sec, evals, obs, buf, now,
          next_pull, disk, calc>>

shared  == <<clients, mode, Emin, Emax, obs>>
hvars   == <<hpc, conn>>
clock   == <<now, next_pull>>
lvars_but_calc == <<lpc, board, global_idx, next_gate, buflen, last_sec, evals,
                    buf, clock, disk>>
lvars   == <<lvars_but_calc, calc>>

\* ---- data ----------------------------------------------------------------
ValidModes == {"normal", "relax", "mental"}

\* A check that accepts any mode string.
IsValidModeAnyString(m) == m # "none"

\* `mode in ("normal", "relax", "mental")`
IsValidMode(m) == m \in {"normal", "relax", "mental"}

\* An inbound frame: how json.loads fares on it, and for a JSON object its
\* "type" and "mode" members ("none" when the member is missing).
InMsgs ==
  {[parse |-> "error", type |-> "none", mode |-> "none"],
   [parse |-> "other", type |-> "none", mode |-> "none"]}
  \cup [parse : {"object"}, type : {"subscribe", "reset_norm", "bogus"},
        mode : {"none"}]
  \cup [parse : {"object"}, type : {"set_mode"},
        mode : ValidModes \cup {"bogus", "none"}]

\* ---- engagement_norm.json ------------------------------------------------------
\* A float as json.dump writes it: a number, or the token Infinity / -Infinity.
NoTok == [tok |-> "none", val |-> 0]

\* A serializer that writes null for a non-finite float.
JsonFloatStrict(v) ==
  IF v = PosInf \/ v = NegInf THEN [tok |-> "null", val |-> 0]
  ELSE [tok |-> "number", val |-> v]
JsonFloat(v) ==
  IF v = PosInf THEN [tok |-> "Infinity", val |-> 0]
  ELSE IF v = NegInf THEN [tok |-> "-Infinity", val |-> 0]
  ELSE [tok |-> "number", val |-> v]

\* float(d.get(key, default)) on what json.load made of the member.
ParseFloat(j, default) ==
  CASE j.tok = "number"    -> j.val
    [] j.tok = "Infinity"  -> PosInf
    [] j.tok = "-Infinity" -> NegInf
    [] OTHER               -> default       \* the member is missing

NoFile == [state |-> "absent", Emin |-> NoTok, Emax |-> NoTok]

\* The file save_norm_state(path, Emin, Emax) leaves at `path`.
save_norm_state(lo, hi) ==
  [state |-> "json", Emin |-> JsonFloat(lo), Emax |-> JsonFloat(hi)]

\* load_norm_state(path): any exception (no file, no JSON, float(None))
\* yields the uninitialized bounds.
load_norm_state(f) ==
  IF f.state # "json" \/ f.Emin.tok = "null" \/ f.Emax.tok = "null"
  THEN <<PosInf, NegInf>>
  ELSE <<ParseFloat(f.Emin, PosInf), ParseFloat(f.Emax, NegInf)>>

NoCalc == [fn |-> "none"]

NoMsg == [type |-> "none"]
NoBc  == [payload |-> NoMsg, pending |-> {}, raised |-> FALSE]

\* Socket traffic of one step: a frame read by the handler of connection
\* `who` ("in"), or one payload handed to ws.send by `who` for every
\* connection in `to`, written on those in `ok`, with ws.close() called on
\* those in `closed` ("out").
NoIo == [dir |-> "none", who |-> LOOP, msg |-> NoMsg, to |-> {}, ok |-> {},
         closed |-> {}]
InIo(c, m) == [dir |-> "in", who |-> c, msg |-> m, to |-> {}, ok |-> {},
               closed |-> {}]
OutIo(k, obj, ts, oks, cls) == [dir |-> "out", who |-> k, msg |-> obj, to |-> ts,
                                ok |-> oks, closed |-> cls]

Max(a, b) == IF a >= b THEN a ELSE b
Min(a, b) == IF a <= b THEN a ELSE b

win_len == WINDOW_S * FS
keep    == Max(win_len * 2, win_len + FS)

\* ---- NormState -------------------------------------------------------------
NormUpdateMinLast(lo, value) == value      \* an update that keeps the last value
NormUpdateMin(lo, value) == IF value < lo THEN value ELSE lo
NormUpdateMax(hi, value) == IF value > hi THEN value ELSE hi
NormResetMin == PosInf
NormResetMaxKept == Emax      \* a reset that forgets Emax
NormResetMax == NegInf

finite_or_none(value) == IF value = PosInf \/ value = NegInf THEN None ELSE value

\* A normalization without the clamp.
Clamp01None(q) == q

\* Enorm as a fraction <<numerator, denominator>>, denominator > 0.
Clamp01(q) == IF q[1] < 0 THEN <<0, 1>> ELSE IF q[1] > q[2] THEN <<1, 1>> ELSE q
\* A normalization whose degenerate case yields 0.
NormalizeZeroMid(E, lo, hi) == Clamp01(IF hi > lo THEN <<E - lo, hi - lo>> ELSE <<0, 1>>)
Normalize(E, lo, hi) == Clamp01(IF hi > lo THEN <<E - lo, hi - lo>> ELSE <<1, 2>>)

\* ---- messages --------------------------------------------------------------
HelloMsgDefault(m) == [type |-> "hello", mode |-> "normal"]
HelloMsg(m) == [type |-> "hello", mode |-> m]
\* The calibration built from Mode as it was before the assignment.
ModeCalibrationStale(m) == [type |-> "calibration", mode |-> mode]
ModeCalibration(m) == [type |-> "calibration", mode |-> m]
ResetCalibration(m, lo, hi) ==
  [type |-> "calibration", mode |-> m,
   Emin |-> finite_or_none(lo), Emax |-> finite_or_none(hi)]
\* The engagement message built from the bounds as they were before the
\* observe step.
EngagementMsgStale(E, lo, hi, m) ==
  [type |-> "engagement", fs |-> FS, E |-> E, Enorm |-> Normalize(E, lo, hi),
   Emin |-> finite_or_none(Emin), Emax |-> finite_or_none(Emax), mode |-> m]
EngagementMsg(E, lo, hi, m) ==
  [type |-> "engagement", fs |-> FS, E |-> E, Enorm |-> Normalize(E, lo, hi),
   Emin |-> finite_or_none(lo), Emax |-> finite_or_none(hi), mode |-> m]

\* ---- _broadcast ------------------------------------------------------------
\* list(self.clients): the subscribers one _broadcast call sends to.
BroadcastTargets(cs) == cs

\* `await self._broadcast(obj)` as seen by its caller k: with no subscriber it
\* returns at once, otherwise one _safe_send task per subscriber is gathered
\* and the caller suspends.
Gathers == clients # {}
StartBroadcast(k, obj) ==
  IF Gathers
  THEN bc' = [bc EXCEPT ![k] = [payload |-> obj,
                                pending |-> BroadcastTargets(clients),
                                raised |-> FALSE]]
  ELSE UNCHANGED bc

BcDone(k) == bc[k].pending = {}

\* The state with the loop at position l, the session in state b, the state
\* file one of `files` and the pure function to apply one of `calcs`.
Start(l, b, files, calcs) ==
  /\ clients = {}
  /\ mode = "normal"
  /\ Emin = PosInf
  /\ Emax = NegInf
  /\ stop = FALSE
  /\ hpc = [c \in Conn |-> "idle"]
  /\ conn = [c \in Conn |-> "new"]
  /\ bc = [k \in Callers |-> NoBc]
  /\ io = NoIo
  /\ lpc = l
  /\ board = b
  /\ global_idx = 0
  /\ next_gate = GATE_STRIDE
  /\ buflen = 0
  /\ last_sec = 0 - 1
  /\ evals = <<>>
  /\ obs = {}
  /\ buf = <<>>
  /\ now = 0
  /\ next_pull = 0
  /\ disk \in files
  /\ calc \in calcs

\* The bridge when _stream_loop enters its loop on a streaming board.
Init == Start("run", "streaming", {NoFile}, {NoCalc})

\* The bridge when start() calls _stream_loop.
InitBoot == Start("boot", "closed", {NoFile}, {NoCalc})

\* ---- _handler --------------------------------------------------------------
\* A handler end without the `finally`.
HandlerEndNoDiscard(c) ==
  /\ clients' = clients
  /\ hpc' = [hpc EXCEPT ![c] = "done"]
  /\ conn' = [conn EXCEPT ![c] = "closed"]

\* The `finally` of _handler, and the library closing the connection once the
\* handler has returned or raised.
HandlerEnd(c) ==
  /\ clients' = clients \ {c}
  /\ hpc' = [hpc EXCEPT ![c] = "done"]
  /\ conn' = [conn EXCEPT ![c] = "closed"]

\* A registration whose greeting is not written before the handler suspends.
ConnectUngreeted(c) ==
  /\ hpc[c] = "idle"
  /\ \A d \in 1..(c - 1) : hpc[d] # "idle"
  /\ lpc \in {"run", "bcast"}
  /\ clients' = clients \cup {c}
  /\ conn' = [conn EXCEPT ![c] = "open"]
  /\ io' = NoIo
  /\ hpc' = [hpc EXCEPT ![c] = "hello"]
  /\ UNCHANGED <<mode, Emin, Emax, obs, stop, bc, lvars>>

\* A connection is accepted (connections are numbered in the order they are
\* accepted): the handler registers it and calls ws.send with the greeting
\* before its first suspension.
Connect(c) ==
  /\ hpc[c] = "idle"
  /\ \A d \in 1..(c - 1) : hpc[d] # "idle"
  /\ lpc \in {"run", "bcast"}
  /\ clients' = clients \cup {c}
  /\ conn' = [conn EXCEPT ![c] = "open"]
  /\ io' = OutIo(c, HelloMsg(mode), {c}, {c}, {})
  /\ hpc' = [hpc EXCEPT ![c] = "hello"]
  /\ UNCHANGED <<mode, Emin, Emax, obs, stop, bc, lvars>>

\* `await ws.send(hello)` completes: on success the handler enters `async for`,
\* on failure the exception leaves through `finally`.
HelloDone(c) ==
  /\ hpc[c] = "hello"
  /\ IF conn[c] = "open"
     THEN /\ hpc' = [hpc EXCEPT ![c] = "recv"]
          /\ UNCHANGED <<clients, conn>>
     ELSE HandlerEnd(c)
  /\ io' = NoIo
  /\ UNCHANGED <<mode, Emin, Emax, obs, stop, bc, lvars>>

\* A frame handler that also forgets the last broadcast second.
HandlerKeepsButLastSec ==
  /\ last_sec' = 0 - 1
  /\ UNCHANGED <<stop, lpc, board, global_idx, next_gate, buflen, evals, buf,
                 clock, disk, calc>>

\* What the handling of a frame leaves alone: the stop event and every local
\* of _stream_loop.
HandlerKeeps == UNCHANGED <<stop, lvars>>

\* One turn of `async for message in ws` up to the next suspension.
Recv(c, m) ==
  /\ hpc[c] = "recv"
  /\ conn[c] = "open"
  /\ io' = InIo(c, m)
  /\ HandlerKeeps
  /\ CASE m.parse = "error" ->          \* json.JSONDecodeError: continue
            UNCHANGED <<shared, hpc, conn, bc>>
       [] m.parse = "other" ->          \* payload.get raises AttributeError
            /\ HandlerEnd(c)
            /\ UNCHANGED <<mode, Emin, Emax, obs, bc>>
       [] m.parse = "object" /\ m.type = "set_mode" /\ IsValidMode(m.mode) ->
            /\ mode' = m.mode
            /\ StartBroadcast(c, ModeCalibration(mode'))
            /\ hpc' = [hpc EXCEPT ![c] = IF Gathers THEN "bcast" ELSE "recv"]
            /\ UNCHANGED <<clients, Emin, Emax, obs, conn>>
       [] m.parse = "object" /\ m.type = "reset_norm" ->
            /\ Emin' = NormResetMin
            /\ Emax' = NormResetMax
            /\ obs' = {}
            /\ StartBroadcast(c, ResetCalibration(mode, Emin', Emax'))
            /\ hpc' = [hpc EXCEPT ![c] = IF Gathers THEN "bcast" ELSE "recv"]
            /\ UNCHANGED <<clients, mode, conn>>
       [] OTHER ->                      \* subscribe, unknown type, invalid mode
            UNCHANGED <<shared, hpc, conn, bc>>

\* The gather awaited by the handler has finished without an exception.
HandlerResume(c) ==
  /\ hpc[c] = "bcast"
  /\ BcDone(c)
  /\ ~bc[c].raised
  /\ hpc' = [hpc EXCEPT ![c] = "recv"]
  /\ bc' = [bc EXCEPT ![c] = NoBc]
  /\ io' = NoIo
  /\ UNCHANGED <<shared, stop, conn, lvars>>

\* The gather awaited by the handler has raised: the exception leaves _handler.
HandlerRaise(c) ==
  /\ hpc[c] = "bcast"
  /\ bc[c].raised
  /\ HandlerEnd(c)
  /\ bc' = [bc EXCEPT ![c] = NoBc]
  /\ io' = NoIo
  /\ UNCHANGED <<mode, Emin, Emax, obs, stop, lvars>>

\* The peer (or the network) ends the connection.
ConnLost(c) ==
  /\ conn[c] = "open"
  /\ conn' = [conn EXCEPT ![c] = "closed"]
  /\ io' = NoIo
  /\ UNCHANGED <<shared, stop, hpc, bc, lvars>>

\* `async for` ends on a closed connection.
HandlerEof(c) ==
  /\ hpc[c] = "recv"
  /\ conn[c] = "closed"
  /\ HandlerEnd(c)
  /\ io' = NoIo
  /\ UNCHANGED <<mode, Emin, Emax, obs, stop, bc, lvars>>

\* ---- _safe_send ------------------------------------------------------------
\* A connection is open or closed.  ws.send on an open connection writes the
\* frame and returns; on a closed one it raises at once, and ws.close() then
\* returns or raises at once as well.
SendOk(t) == conn[t] = "open"

\* Sends made one after the other with no try: the first failure ends them all.
SendFailuresAbortAll(ts) == IF \E t \in ts : ~SendOk(t) THEN ts ELSE {}

\* The subscribers of a gather whose ws.send raises: their tasks go through
\* `except Exception`: ws.close(), then `finally` discards them.
SendFailures(ts) == {t \in ts : ~SendOk(t)}

\* The subscribers one run of the gathered tasks removes from self.clients.
Discarded(ts) == SendFailures(ts)

\* The _safe_send tasks of broadcast k run.  The event loop runs ready tasks in
\* the order gather created them, so they run back to back, each to its end.
\* `raises`: some ws.close() raised; the exception leaves that task after its
\* `finally` and gather hands it to the caller of _broadcast.
SafeSend(k, raises) ==
  /\ bc[k].pending # {}
  /\ raises => SendFailures(bc[k].pending) # {}
  /\ io' = OutIo(k, bc[k].payload, bc[k].pending,
                 bc[k].pending \ SendFailures(bc[k].pending),
                 SendFailures(bc[k].pending))
  /\ clients' = clients \ Discarded(bc[k].pending)
  /\ bc' = [bc EXCEPT ![k] = [@ EXCEPT !.pending = {}, !.raised = raises]]
  /\ UNCHANGED <<mode, Emin, Emax, obs, stop, hvars, lvars>>

\* ---- _stream_loop ----------------------------------------------------------
\* An `if` in place of the `while`.
AdvanceGateOnce(gate, idx) == IF gate <= idx THEN gate + GATE_STRIDE ELSE gate

\* A gate set one stride past the sample index.
AdvanceGatePastIdx(gate, idx) == idx + GATE_STRIDE

RECURSIVE AdvanceGate(_, _)
AdvanceGate(gate, idx) ==
  IF gate <= idx THEN AdvanceGate(gate + GATE_STRIDE, idx) ELSE gate

SecOf(idx) == idx \div FS

BufAfter(len, n) ==
  IF n = 0 THEN len
  ELSE IF len = 0 THEN Min(n, win_len)
  ELSE Min(len + n, keep)

\* The buffer's rows as runs <<first, last>> of sample numbers, the samples
\* being numbered 1, 2, ... in the order the board delivers them.
RunLen(r) == r[2] - r[1] + 1

RECURSIVE Rows(_)
Rows(rs) == IF rs = <<>> THEN 0 ELSE RunLen(Head(rs)) + Rows(Tail(rs))

\* rs[-k:, :] for k > 0
RECURSIVE LastRows(_, _)
LastRows(rs, k) ==
  IF rs = <<>> THEN <<>>
  ELSE LET r == rs[Len(rs)]
       IN IF RunLen(r) >= k
          THEN << <<r[2] - k + 1, r[2]>> >>
          ELSE LastRows(SubSeq(rs, 1, Len(rs) - 1), k - RunLen(r)) \o <<r>>

\* np.vstack((a, b)); two runs that follow one another are written as one.
VStack(a, b) ==
  IF a # <<>> /\ b # <<>> /\ a[Len(a)][2] + 1 = b[1][1]
  THEN SubSeq(a, 1, Len(a) - 1) \o << <<a[Len(a)][1], b[1][2]>> >> \o Tail(b)
  ELSE a \o b

\* The block X of a pull of n > 0 samples when idx samples came before it.
Block(idx, n) == << <<idx + 1, idx + n>> >>

\* `buf = X[-win_len:, :] if n >= win_len else X.copy()`
FirstFill(X, n) == IF n >= win_len THEN LastRows(X, win_len) ELSE X

\* An append that never drops a row.
RefillNoTrim(rs, X) == VStack(rs, X)

\* `buf = np.vstack((buf, X))[-keep:, :]`
Refill(rs, X) == LastRows(VStack(rs, X), keep)

\* The buffer after a pull of n samples.
BufAppend(rs, idx, n) ==
  IF n = 0 THEN rs
  ELSE IF Rows(rs) = 0 THEN FirstFill(Block(idx, n), n)
  ELSE Refill(rs, Block(idx, n))

\* `win = buf[-win_len:, :]`
Window(rs) == LastRows(rs, win_len)

GateDue(idx, gate, len) == idx >= gate /\ len >= win_len /\ len > 0

EmitsAlways(sec, last) == TRUE

\* `if sec != last_sec`: the evaluation is broadcast.
Emits(sec, last) == sec # last

\* One iteration of the while loop, from its top to the next suspension: the
\* pull (n samples, 0 also when no pull is due), and the gated evaluation
\* with raw value E.
Iteration(n, E, cap) ==
  /\ lpc = "run"
  /\ ~stop
  /\ global_idx + n <= cap
  /\ global_idx' = global_idx + n
  /\ buflen' = BufAfter(buflen, n)
  /\ buf' = BufAppend(buf, global_idx, n)
  /\ io' = NoIo
  /\ UNCHANGED <<clients, mode, stop, hvars, board, disk, calc>>
  /\ IF GateDue(global_idx', next_gate, buflen')
     THEN /\ Emin' = NormUpdateMin(Emin, E)
          /\ Emax' = NormUpdateMax(Emax, E)
          /\ obs' = obs \cup {E}
          /\ LET sec  == SecOf(global_idx')
                 emit == Emits(sec, last_sec)
             IN /\ evals' = Append(evals, [idx |-> global_idx', emitted |-> emit, E |-> E,
                                       Enorm |-> Normalize(E, Emin', Emax'),
                                       win |-> Window(buf')])
                /\ IF emit
                   THEN /\ last_sec' = sec
                        /\ StartBroadcast(LOOP, EngagementMsg(E, Emin', Emax', mode))
                        /\ IF Gathers
                           THEN lpc' = "bcast" /\ UNCHANGED next_gate
                           ELSE /\ next_gate' = AdvanceGate(next_gate, global_idx')
                                /\ UNCHANGED lpc
                   ELSE /\ next_gate' = AdvanceGate(next_gate, global_idx')
                        /\ UNCHANGED <<last_sec, lpc, bc>>
     ELSE /\ UNCHANGED <<Emin, Emax, obs, evals, last_sec, next_gate, lpc, bc>>

\* An iteration with the clock left out: whether a pull is due is the
\* environment's choice (n = 0 also stands for "no pull due").
StreamIter(n, E, cap) ==
  /\ Iteration(n, E, cap)
  /\ UNCHANGED clock

\* A schedule that never moves the pull instant.
NextPullHold(t, due) == due

\* A schedule without the drift correction.
NextPullNoSnap(t, due) == due + EEG_PULL_PERIOD_MS

\* `next_pull += EEG_PULL_PERIOD_S; if now - next_pull > EEG_PULL_PERIOD_S:
\* next_pull = now`
NextPull(t, due) ==
  IF t - (due + EEG_PULL_PERIOD_MS) > EEG_PULL_PERIOD_MS
  THEN t
  ELSE due + EEG_PULL_PERIOD_MS

\* An iteration with the clock: d milliseconds after the last reading of
\* time.monotonic() the loop reads it again and pulls if the pull is due.
StreamCycle(d, n, E, cap) ==
  /\ now + d <= MaxNow
  /\ now' = now + d
  /\ IF now' >= next_pull
     THEN /\ Iteration(n, E, cap)
          /\ next_pull' = NextPull(now', next_pull)
     ELSE /\ Iteration(0, E, cap)
          /\ next_pull' = next_pull

\* The engagement broadcast returned: the iteration goes on to the gate.
StreamResume ==
  /\ lpc = "bcast"
  /\ BcDone(LOOP)
  /\ ~bc[LOOP].raised
  /\ next_gate' = AdvanceGate(next_gate, global_idx)
  /\ lpc' = "run"
  /\ bc' = [bc EXCEPT ![LOOP] = NoBc]
  /\ io' = NoIo
  /\ UNCHANGED <<shared, stop, hvars, board, global_idx, buflen, last_sec, evals,
                 buf, clock, disk, calc>>

\* The engagement broadcast raised: the exception leaves _stream_loop through
\* its `finally`, which stops and releases the board.
StreamRaise ==
  /\ lpc = "bcast"
  /\ bc[LOOP].raised
  /\ lpc' = "dead"
  /\ board' = "released"
  /\ bc' = [bc EXCEPT ![LOOP] = NoBc]
  /\ io' = NoIo
  /\ UNCHANGED <<shared, stop, hvars, global_idx, next_gate, buflen,
                 last_sec, evals, buf, clock, disk, calc>>

\* brainflow_init, called before the `try` of _stream_loop.  prepare_session
\* opens the session; config_board and start_stream follow.  An exception of
\* any of the three leaves _stream_loop and start().
BootOutcomes == {"ok", "prepare_fails", "config_fails", "start_fails"}
BrainflowInit(outcome) ==
  /\ lpc = "boot"
  /\ board' = CASE outcome = "ok" -> "streaming"
               [] outcome = "prepare_fails" -> "closed"
               [] OTHER -> "prepared"
  /\ lpc' = IF outcome = "ok" THEN "run" ELSE "failed"
  /\ io' = NoIo
  /\ UNCHANGED <<shared, stop, hvars, bc, global_idx, next_gate, buflen,
                 last_sec, evals, buf, clock, disk, calc>>

\* get_new_eeg raises: the exception leaves the loop through `finally`.
StreamPullFail ==
  /\ lpc = "run"
  /\ ~stop
  /\ lpc' = "dead"
  /\ board' = "released"
  /\ io' = NoIo
  /\ UNCHANGED <<shared, stop, hvars, bc, global_idx, next_gate, buflen,
                 last_sec, evals, buf, clock, disk, calc>>

\* SIGINT / SIGTERM: the signal handler sets the stop event.
SetStop ==
  /\ ~stop
  /\ stop' = TRUE
  /\ io' = NoIo
  /\ UNCHANGED <<clients, mode, Emin, Emax, obs, hvars, bc, lvars>>

\* `while not self._stop.is_set()` ends the loop.
StreamExit ==
  /\ lpc = "run"
  /\ stop
  /\ lpc' = "stopped"
  /\ board' = "released"
  /\ io' = NoIo
  /\ UNCHANGED <<shared, stop, hvars, bc, global_idx, next_gate, buflen,
                 last_sec, evals, buf, clock, disk, calc>>

\* ---- engagement_streaming.py: run_engagement ---------------------------------
\* The offline program has the loop of the bridge without subscribers: it
\* loads the bounds at start, saves them whenever an evaluation moves one,
\* and prints where the bridge broadcasts.
CorruptFile == [state |-> "corrupt", Emin |-> NoTok, Emax |-> NoTok]
StartFiles  == {NoFile, CorruptFile, save_norm_state(1, 1)}

InitOffline == Start("boot", "closed", StartFiles, {NoCalc})

bridge == <<clients, mode, stop, hvars, bc, clock, calc>>

\* brainflow_init succeeds and load_norm_state reads the file.
OfflineStart ==
  /\ lpc = "boot"
  /\ board' = "streaming"
  /\ Emin' = load_norm_state(disk)[1]
  /\ Emax' = load_norm_state(disk)[2]
  /\ lpc' = "run"
  /\ io' = NoIo
  /\ UNCHANGED <<bridge, obs, disk, global_idx, next_gate, buflen, buf,
                 last_sec, evals>>

\* `if E < Emin ... if E > Emax ...`: updated
Updated(E, lo, hi) == E < lo \/ E > hi

\* One iteration of `while True`.  `written`: save_norm_state, if called,
\* returns; otherwise it raises, and the exception leaves run_engagement
\* through `finally`, which only KeyboardInterrupt is caught before.
OfflineIter(n, E, written, cap) ==
  /\ lpc = "run"
  /\ global_idx + n <= cap
  /\ global_idx' = global_idx + n
  /\ buflen' = BufAfter(buflen, n)
  /\ buf' = BufAppend(buf, global_idx, n)
  /\ io' = NoIo
  /\ UNCHANGED bridge
  /\ IF GateDue(global_idx', next_gate, buflen')
     THEN /\ Emin' = NormUpdateMin(Emin, E)
          /\ Emax' = NormUpdateMax(Emax, E)
          /\ obs' = obs \cup {E}
          /\ IF Updated(E, Emin, Emax) /\ ~written
             THEN /\ lpc' = "dead"
                  /\ board' = "released"
                  /\ UNCHANGED <<disk, evals, last_sec, next_gate>>
             ELSE /\ written
                  /\ disk' = IF Updated(E, Emin, Emax)
                             THEN save_norm_state(Emin', Emax') ELSE disk
                  /\ LET sec  == SecOf(global_idx')
                         emit == Emits(sec, last_sec)
                     IN /\ evals' = Append(evals,
                                       [idx |-> global_idx', emitted |-> emit,
                                        E |-> E,
                                        Enorm |-> Normalize(E, Emin', Emax'),
                                        win |-> Window(buf')])
                        /\ last_sec' = IF emit THEN sec ELSE last_sec
                  /\ next_gate' = AdvanceGate(next_gate, global_idx')
                  /\ UNCHANGED <<lpc, board>>
     ELSE /\ written
          /\ UNCHANGED <<Emin, Emax, obs, disk, evals, last_sec, next_gate,
                         lpc, board>>

\* Ctrl-C: `except KeyboardInterrupt`, then `finally`.
OfflineInterrupt ==
  /\ lpc = "run"
  /\ lpc' = "stopped"
  /\ board' = "released"
  /\ io' = NoIo
  /\ UNCHANGED <<bridge, Emin, Emax, obs, disk, global_idx, next_gate, buflen,
                 buf, last_sec, evals>>

\* ---- the pure functions, applied to inputs of the environment's choice ----------
\* The state but for `calc` and `io`.
world == <<shared, stop, hvars, bc, lvars_but_calc>>

\* `Enorm = ...` of one evaluation, for the raw value E and the bounds lo, hi.
CalcNormalize(E, lo, hi) ==
  /\ calc' = [fn |-> "normalize", E |-> E, lo |-> lo, hi |-> hi,
              out |-> Normalize(E, lo, hi)]
  /\ io' = NoIo
  /\ UNCHANGED world

\* save_norm_state(path, lo, hi) in one process, load_norm_state(path) in the
\* next.
CalcRoundTrip(lo, hi) ==
  /\ calc' = [fn |-> "roundtrip", lo |-> lo, hi |-> hi,
              file |-> save_norm_state(lo, hi),
              out |-> load_norm_state(save_norm_state(lo, hi))]
  /\ io' = NoIo
  /\ UNCHANGED world

\* ---- band power and engagement ---------------------------------------------------
\* Powers are counted in units of 0.5e-12, so that the 1e-12 of the code is 2.
EPS   == 2
BANDS == [theta |-> <<4, 7>>, alpha |-> <<7, 11>>, beta |-> <<11, 20>>]

\* The bins k of rfftfreq(n, 1/fs), of frequency k * fs / n, that `mask` keeps.
BandBins(n, band) ==
  {k \in 0..(n \div 2) : k * FS >= band[1] * n /\ k * FS < band[2] * n}

\* np.trapz over the kept bins: `area` when there are two or more, 0 for one.
Trapz(bins, area) == IF Cardinality(bins) >= 2 THEN area ELSE 0

\* bandpower_hann_rfft for a signal of n samples whose PSD integrates to
\* `area` over the band.
bandpower_hann_rfft(n, band, area) ==
  IF n = 0 THEN 0
  ELSE IF BandBins(n, band) = {} THEN 0
  ELSE Trapz(BandBins(n, band), area)

\* `for c in range(C): p += bandpower_hann_rfft(win[:, c], ...)`
RECURSIVE BandSum(_, _, _, _)
BandSum(n, band, areas, C) ==
  IF C = 0 THEN 0
  ELSE BandSum(n, band, areas, C - 1) + bandpower_hann_rfft(n, band, areas[C])

\* A ratio without the guard on the denominator.
EngagementRatioUnguarded(beta_p, denom) == <<beta_p, denom>>

\* `E = beta_p / denom if denom > 1e-12 else 0.0`, as a fraction.
EngagementRatio(beta_p, denom) ==
  IF denom > EPS THEN <<beta_p, denom>> ELSE <<0, 1>>

\* engagement_from_window for a window of n rows and C channels; areas[b][c]
\* is what the PSD of channel c integrates to over band b.
engagement_from_window(n, C, areas) ==
  IF n * C = 0
  THEN [E |-> <<0, 1>>, alpha |-> 0, theta |-> 0, beta |-> 0]
  ELSE LET theta_p == BandSum(n, BANDS.theta, areas.theta, C) \div C
           alpha_p == BandSum(n, BANDS.alpha, areas.alpha, C) \div C
           beta_p  == BandSum(n, BANDS.beta, areas.beta, C) \div C
       IN [E |-> EngagementRatio(beta_p, alpha_p + theta_p),
           alpha |-> alpha_p, theta |-> theta_p, beta |-> beta_p]

\* The call engagement_from_window(win, fs) before it is made.
EngagementCall(n, C, areas) ==
  [fn |-> "engagement", n |-> n, C |-> C, areas |-> areas, done |-> FALSE,
   out |-> [E |-> <<0, 1>>, alpha |-> 0, theta |-> 0, beta |-> 0]]

\* The call is made and returns.
CalcEngagement ==
  /\ calc.fn = "engagement"
  /\ ~calc.done
  /\ calc' = [calc EXCEPT !.done = TRUE,
                          !.out = engagement_from_window(calc.n, calc.C,
                                                         calc.areas)]
  /\ io' = NoIo
  /\ UNCHANGED world

\* ---- environments -----------------------------------------------------------
SetMode(m) == [parse |-> "object", type |-> "set_mode", mode |-> m]
NonObject  == [parse |-> "other", type |-> "none", mode |-> "none"]
ResetNorm  == [parse |-> "object", type |-> "reset_norm", mode |-> "none"]

Solo     == 1..(NConn - 1)
OneGate  == 2 * GATE_STRIDE - 1      \* samples short of the second gate
OnePull  == {310}

\* The connection handlers and the fan-out, for the connections `cs` sending
\* frames from `ms`.
Handlers(cs, ms) ==
  \/ \E c \in cs : Connect(c)
  \/ \E c \in cs : HelloDone(c)
  \/ \E c \in cs, m \in ms : Recv(c, m)
  \/ \E c \in cs : HandlerResume(c)
  \/ \E c \in cs : HandlerRaise(c)
  \/ \E c \in cs : ConnLost(c)
  \/ \E c \in cs : HandlerEof(c)
  \/ \E k \in Callers, r \in BOOLEAN : SafeSend(k, r)

\* The pipeline loop fed pulls of the sizes `ps`, up to `cap` samples in all,
\* with windows of raw engagement `es`.
Pipeline(ps, cap, es) ==
  \/ \E n \in ps \cup {0}, E \in es : StreamIter(n, E, cap)
  \/ StreamResume
  \/ StreamRaise

\* The pipeline loop while the board delivers nothing.
Starved == StreamIter(0, 0, 0)

\* SIGINT / SIGTERM and the end of the loop.
Signal == SetStop \/ StreamExit

\* Fan-out: every connection, one control frame and one malformed frame, the
\* loop up to its first engagement broadcast.
Next == Handlers(Conn, {SetMode("relax"), NonObject}) \/ Pipeline(OnePull, OneGate, EValues)
Spec == Init /\ [][Next]_vars

\* Mode changes: every connection, two modes, a starved loop.
NextModes == Handlers(Conn, {SetMode("relax"), SetMode("mental")}) \/ Starved
SpecModes == Init /\ [][NextModes]_vars

\* Control protocol: every inbound frame, the loop up to its first engagement
\* broadcast.
NextCtl == Handlers(Solo, InMsgs) \/ Pipeline(OnePull, OneGate, EValues)
SpecCtl == Init /\ [][NextCtl]_vars

\* Gate scheduling: every pull size, up to MaxIdx samples.
NextGate == Handlers(Solo, {ResetNorm}) \/ Pipeline(PullSizes, MaxIdx, EValues)
SpecGate == Init /\ [][NextGate]_vars

\* Normalization: one connection that resets, the loop over the raw values
\* 0..MaxE, and normalize applied to the bounds of the moment.
First      == {1}
CalcValues == 0..(MaxE + 1)
NextNorm ==
  \/ Handlers(First, {ResetNorm})
  \/ Pipeline(OnePull, MaxIdx, ERange)
  \/ \E x \in CalcValues : CalcNormalize(x, Emin, Emax)
SpecNorm == Init /\ [][NextNorm]_vars

\* The pure functions over bounded inputs, beside a loop without subscribers.
CalcBounds ==
  {b \in CalcValues \X CalcValues : b[2] > b[1]} \cup {<<PosInf, NegInf>>}
Floats == CalcValues \cup {PosInf, NegInf}
NextCalc ==
  \/ \E x \in CalcValues, b \in CalcBounds : CalcNormalize(x, b[1], b[2])
  \/ \E lo \in Floats, hi \in Floats : CalcRoundTrip(lo, hi)
  \/ \E E \in ERange : StreamIter(310, E, MaxIdx)
SpecCalc == Init /\ [][NextCalc]_vars

\* The offline program.
NextOffline ==
  \/ OfflineStart
  \/ \E n \in PullSizes, E \in ERange, w \in BOOLEAN : OfflineIter(n, E, w, MaxIdx)
  \/ OfflineInterrupt
SpecOffline == InitOffline /\ [][NextOffline]_vars

\* Pull scheduling: the loop without subscribers, read after delays from a
\* prompt wake-up to a stall of more than two periods.
Delays    == {50, 250, 450}
SlowPulls == {0, 100}
NextSched == \E d \in Delays, n \in SlowPulls : StreamCycle(d, n, 0, MaxIdx)
SpecSched == Init /\ [][NextSched]_vars

\* The engagement computation over windows of 0 to 125 rows and 0 to 2
\* channels, with band integrals of 0, 1e-12 and 2e-12 per channel.
WinLens  == {0, 1, 8, 40, 125}
Channels == {0, 1, 2}
Powers   == {0, 2, 4}
Areas    == [{"theta", "alpha", "beta"} -> [{1, 2} -> Powers]]
InitSpectral ==
  Start("run", "streaming", {NoFile},
        {EngagementCall(n, C, areas) : n \in WinLens, C \in Channels, areas \in Areas})
NextSpectral == CalcEngagement
SpecSpectral == InitSpectral /\ [][NextSpectral]_vars

\* Shutdown: the fan-out environment from the start of _stream_loop, with a
\* failing board and the signal.
NextSig ==
  \/ \E o \in BootOutcomes : BrainflowInit(o)
  \/ Next
  \/ StreamPullFail
  \/ Signal
SpecSig == InitBoot /\ [][NextSig]_vars

TypeOK ==
  /\ clients \subseteq Conn
  /\ mode \in ValidModes
  /\ lpc \in {"boot", "failed", "run", "bcast", "dead", "stopped"}
  /\ board \in {"closed", "prepared", "streaming", "released"}

\* ---- steps, as seen in the state they lead to ------------------------------
\* The last step ran the gathered _safe_send tasks of one broadcast.
Broadcasted == io.dir = "out" /\ io.msg.type # "hello"
\* The last step accepted a connection and sent its greeting.
Greeted     == io.dir = "out" /\ io.msg.type = "hello"
\* The last step handled an inbound frame.
Handled     == io.dir = "in"

Running(c) == hpc[c] \in {"hello", "recv", "bcast"}

\* C1: in a broadcast in which the send to a subscriber fails, the message is
\* still written to every other subscriber of the broadcast, and once the
\* broadcast is complete each failing subscriber has been closed and is out
\* of the subscriber set, while those that received the message are still in.
C1_FailingSubscriberIsLocal ==
  Broadcasted =>
    /\ BcDone(io.who)
    /\ io.ok = {t \in io.to : conn[t] = "open"}
    /\ io.closed = io.to \ io.ok
    /\ \A t \in io.closed : t \notin clients /\ conn[t] = "closed"
    /\ io.ok \subseteq clients
    /\ \A t \in clients : t \in io.ok \/ t \notin io.to

C1_Witness ==
  /\ Broadcasted
  /\ io.closed # {}
  /\ io.ok # {}
  /\ Cardinality(io.to) = NConn

\* C3 (as claimed): whatever happens while sending to or closing a failing
\* subscriber, _broadcast returns normally: no gather hands an exception to
\* its caller and the pipeline loop is never ended by one.
C3_NeverEscalated ==
  /\ lpc # "dead"
  /\ \A k \in Callers : ~bc[k].raised

\* C8: the subscriber set holds only connections whose handler task is still
\* running; a handler that has ended, for whatever reason, is unregistered.
C8_OnlyRunningHandlersSubscribed ==
  \A c \in Conn : c \in clients => Running(c)

C8_Witness ==
  /\ Handled
  /\ io.msg = NonObject
  /\ hpc[io.who] = "done"
  /\ io.who \notin clients
  /\ clients # {}

\* ---- control frames ------------------------------------------------------------
\* The frames the protocol calls malformed.
Malformed(m) ==
  \/ m.parse \in {"error", "other"}
  \/ m.type \notin {"subscribe", "set_mode", "reset_norm"}
  \/ m.type = "set_mode" /\ m.mode \notin {"normal", "relax", "mental"}

\* C2 (as claimed): a malformed inbound frame (not JSON, JSON but not an
\* object, unknown type, set_mode with an invalid mode) is ignored: Mode,
\* NormState and the subscriber set are unchanged, nothing is broadcast, and
\* the sender's handler goes on reading frames on a connection left open.
C2_MalformedIgnored ==
  [][(io'.dir = "in" /\ Malformed(io'.msg)) =>
       /\ UNCHANGED <<clients, mode, Emin, Emax, bc, conn>>
       /\ hpc'[io'.who] = "recv"]_vars

\* C4: a set_mode frame whose mode is not normal, relax or mental (a missing
\* mode included) leaves Mode unchanged and starts no broadcast; Mode starts
\* as "normal" and is one of the three in every reachable state.
C4_InvalidModeRejected ==
  /\ mode = "normal"
  /\ [](mode \in {"normal", "relax", "mental"})
  /\ [][(/\ io'.dir = "in"
         /\ io'.msg.parse = "object"
         /\ io'.msg.type = "set_mode"
         /\ io'.msg.mode \notin {"normal", "relax", "mental"}) =>
          /\ mode' = mode
          /\ bc' = bc
          /\ hpc'[io'.who] = "recv"]_vars

C4_Witness ==
  /\ Handled
  /\ io.msg = SetMode("none")
  /\ mode = "relax"
  /\ bc[io.who] = NoBc

\* C5: a set_mode frame with a valid mode m sets Mode to m, leaves NormState
\* alone and starts a broadcast of {calibration, mode: m} to all current
\* subscribers; the payload of a broadcast never changes while it is pending,
\* and what is written to the subscribers is that payload, whatever other
\* handlers and the loop did in between.
C5_SetModeBroadcastsNewMode ==
  /\ [][(/\ io'.dir = "in"
         /\ io'.msg.parse = "object"
         /\ io'.msg.type = "set_mode"
         /\ io'.msg.mode \in {"normal", "relax", "mental"}) =>
          /\ mode' = io'.msg.mode
          /\ Emin' = Emin /\ Emax' = Emax
          /\ clients # {} =>
               bc'[io'.who] = [payload |-> [type |-> "calibration",
                                            mode |-> io'.msg.mode],
                               pending |-> clients, raised |-> FALSE]]_vars
  /\ [][\A k \in Callers :
          bc[k].pending # {} /\ bc'[k].pending # {} => bc'[k] = bc[k]]_vars
  /\ [][(io'.dir = "out" /\ io'.msg.type = "calibration") =>
          /\ io'.msg = bc[io'.who].payload
          /\ io'.to = bc[io'.who].pending
          /\ io'.ok = {t \in io'.to : conn[t] = "open"}]_vars

C5_Witness ==
  /\ Broadcasted
  /\ io.msg = [type |-> "calibration", mode |-> "relax"]
  /\ Cardinality(io.ok) = NConn
  /\ mode = "mental"

\* C6: a reset_norm frame returns both bounds to the uninitialized state
\* (Emin = +inf, Emax = -inf), leaves Mode alone and starts a broadcast to all
\* current subscribers of a calibration message whose Emin and Emax are null;
\* the message written carries null bounds also when the loop has observed a
\* value between the reset and the write.
C6_ResetNormBroadcastsNullBounds ==
  /\ [][(/\ io'.dir = "in"
         /\ io'.msg.parse = "object"
         /\ io'.msg.type = "reset_norm") =>
          /\ Emin' = PosInf /\ Emax' = NegInf
          /\ mode' = mode
          /\ clients # {} =>
               bc'[io'.who] = [payload |-> [type |-> "calibration",
                                            mode |-> mode,
                                            Emin |-> None, Emax |-> None],
                               pending |-> clients, raised |-> FALSE]]_vars
  /\ [][(/\ io'.dir = "out"
         /\ io'.msg.type = "calibration"
         /\ "Emin" \in DOMAIN io'.msg) =>
          /\ io'.msg = bc[io'.who].payload
          /\ io'.to = bc[io'.who].pending
          /\ io'.msg.Emin = None /\ io'.msg.Emax = None]_vars

C6_Witness ==
  /\ Broadcasted
  /\ io.msg.type = "calibration"
  /\ "Emin" \in DOMAIN io.msg
  /\ io.ok # {}
  /\ Emin # PosInf

\* C7: a connection is greeted exactly once: the step that registers it
\* writes one hello to it, carrying Mode as it is at that moment; no hello is
\* written at any other step, and a connection is registered at most once.
C7_OneHelloOnRegistration ==
  /\ [][\A c \in Conn :
          (hpc[c] = "idle" /\ hpc'[c] # "idle") =>
             /\ c \in clients'
             /\ io' = [dir |-> "out", who |-> c,
                       msg |-> [type |-> "hello", mode |-> mode],
                       to |-> {c}, ok |-> {c}, closed |-> {}]]_vars
  /\ [][(io'.dir = "out" /\ io'.msg.type = "hello") =>
          hpc[io'.who] = "idle" /\ hpc'[io'.who] # "idle"]_vars
  /\ [][\A c \in Conn : hpc[c] # "idle" => hpc'[c] # "idle"]_vars

C7_Witness ==
  /\ Greeted
  /\ io.who = NConn
  /\ io.msg.mode = "mental"
  /\ io.ok = {NConn}

\* ---- gate scheduling ------------------------------------------------------------
\* The smallest multiple of the stride strictly greater than idx.
NextMultiple(idx) == (idx \div GATE_STRIDE + 1) * GATE_STRIDE

\* C9: a cycle in which global_idx >= next_gate with a full window buffered
\* triggers exactly one evaluation, however many multiples of the stride the
\* pull jumped over, and a cycle that does not triggers none; when the cycle
\* of an evaluation ends, next_gate is the smallest multiple of the stride
\* strictly greater than global_idx.
C9_OneEvaluationPerCycle ==
  /\ [][(lpc = "run" /\ global_idx' # global_idx) =>
          IF global_idx' >= next_gate /\ buflen' >= win_len
          THEN /\ Len(evals') = Len(evals) + 1
               /\ SubSeq(evals', 1, Len(evals)) = evals
               /\ evals'[Len(evals')].idx = global_idx'
          ELSE evals' = evals /\ next_gate' = next_gate]_vars
  /\ [][(lpc' = "run" /\ (evals' # evals \/ lpc = "bcast")) =>
          next_gate' = NextMultiple(global_idx')]_vars
  /\ [](lpc = "run" => next_gate = NextMultiple(global_idx))

C9_Witness ==
  /\ lpc = "run"
  /\ Len(evals) = 1
  /\ evals[1].idx = 600
  /\ global_idx = 600
  /\ next_gate = 768

\* C10: an evaluation is broadcast exactly when no earlier evaluation fell in
\* the same whole second floor(global_idx / fs), so no two broadcasts carry
\* the same second; the loop awaits a broadcast only for such an evaluation,
\* and every engagement message written belongs to it.
C10_OneBroadcastPerSecond ==
  /\ \A i \in 1..Len(evals) :
       evals[i].emitted <=>
         (\A j \in 1..(i - 1) : evals[j].idx \div FS # evals[i].idx \div FS)
  /\ \A i, j \in 1..Len(evals) :
       (i # j /\ evals[i].emitted /\ evals[j].emitted) =>
          evals[i].idx \div FS # evals[j].idx \div FS
  /\ lpc = "bcast" =>
       /\ evals # <<>> /\ evals[Len(evals)].emitted
       /\ bc[LOOP].payload.type = "engagement"
  /\ (io.dir = "out" /\ io.msg.type = "engagement") =>
       io.who = LOOP /\ lpc = "bcast" /\ BcDone(LOOP)

C10_Witness ==
  /\ Len(evals) >= 2
  /\ evals[Len(evals) - 1].emitted
  /\ ~evals[Len(evals)].emitted
  /\ lpc = "run"

\* ---- normalization ------------------------------------------------------------
InUnit(q) == q[2] > 0 /\ 0 <= q[1] /\ q[1] <= q[2]

\* C11: for bounds with Emax > Emin and every raw value E, the clamped
\* (E - Emin)/(Emax - Emin) lies in [0, 1], is the unclamped quotient for E
\* between the bounds, 0 for E = Emin and 1 for E = Emax; the Enorm of every
\* evaluation of the loop lies in [0, 1].
C11_NormalizedInUnitInterval ==
  /\ (calc.fn = "normalize" /\ calc.hi > calc.lo) =>
       /\ InUnit(calc.out)
       /\ calc.E = calc.lo => calc.out[1] = 0
       /\ calc.E = calc.hi => calc.out[1] = calc.out[2]
       /\ (calc.lo <= calc.E /\ calc.E <= calc.hi) =>
            calc.out[1] * (calc.hi - calc.lo) = (calc.E - calc.lo) * calc.out[2]
  /\ \A i \in 1..Len(evals) : InUnit(evals[i].Enorm)

C11_Witness ==
  /\ calc.fn = "normalize"
  /\ calc.lo < calc.hi
  /\ calc.hi < calc.E
  /\ calc.out = <<1, 1>>
  /\ \E i \in 1..Len(evals) : evals[i].Enorm = <<0, MaxE>>

\* C12: with the bounds uninitialized (before any observation, or right
\* after a reset) normalize(x) is 0.5 for every x, and the first evaluation
\* after start and after any reset_norm has Enorm = 0.5; the bounds are
\* uninitialized exactly when nothing was observed since start or reset.
C12_MidpointWhenUninitialized ==
  /\ []((obs = {}) <=> (Emin = PosInf /\ Emax = NegInf))
  /\ []((calc.fn = "normalize" /\ calc.lo = PosInf /\ calc.hi = NegInf) =>
          (calc.out[1] * 2 = calc.out[2]))
  /\ [][(Len(evals') = Len(evals) + 1 /\ obs = {}) =>
          evals'[Len(evals')].Enorm[1] * 2 = evals'[Len(evals')].Enorm[2]]_vars

C12_Witness ==
  /\ Len(evals) >= 2
  /\ evals[Len(evals)].E # evals[Len(evals) - 1].E
  /\ obs = {evals[Len(evals)].E}
  /\ evals[Len(evals)].Enorm = <<1, 2>>
  /\ calc.fn = "normalize" /\ calc.lo = PosInf /\ calc.E = MaxE + 1

SetMin(S) == CHOOSE x \in S : \A y \in S : x <= y
SetMax(S) == CHOOSE x \in S : \A y \in S : x >= y

C15_SaveFailureNonFatal ==
  [][(/\ lpc = "run"
      /\ Emin' # Emin \/ Emax' # Emax
      /\ disk' = disk) =>
       (lpc' = "run" /\ board' = "streaming")]_vars

\* ---- shutdown -------------------------------------------------------------------
LoopEnded == lpc \in {"stopped", "dead", "failed"}

\* C16 (as claimed, the resource part): on every path on which _stream_loop
\* ends after the acquisition session was opened (normal stop, an exception
\* of the sample source or of a broadcast, a failure while configuring or
\* starting the stream) the session has been released.
C16_ReleasedOnEveryExit ==
  (LoopEnded /\ board # "closed") => board = "released"

\* ---- pull scheduling ------------------------------------------------------------
\* An iteration that reads the clock and finds the pull due.
PullStep == now' # now /\ now' >= next_pull

\* C17 (as claimed): a pull at `now` advances next_pull by one period, unless
\* `now` is more than one period past the instant that triggered the pull, in
\* which case next_pull becomes `now`; no pull instant is left in the past.
C17_SnapPastOnePeriod ==
  /\ [][PullStep =>
          next_pull' = IF now' - next_pull > EEG_PULL_PERIOD_MS
                       THEN now' ELSE next_pull + EEG_PULL_PERIOD_MS]_vars
  /\ [](next_pull >= now)

\* C17 (amended): a pull at `now` advances next_pull by one period, unless
\* `now` is more than one period past the advanced instant, that is more than
\* two periods past the instant that triggered the pull, in which case
\* next_pull becomes `now`; an iteration without a pull leaves next_pull
\* alone, and next_pull is never more than one period in the past.
C17_SnapPastTwoPeriods ==
  /\ [][PullStep =>
          next_pull' = IF now' - next_pull > 2 * EEG_PULL_PERIOD_MS
                       THEN now' ELSE next_pull + EEG_PULL_PERIOD_MS]_vars
  /\ [][(now' # now /\ now' < next_pull) => next_pull' = next_pull]_vars
  /\ [](now - next_pull <= EEG_PULL_PERIOD_MS)

\* A pull more than one and at most two periods late: next_pull stays behind.
C17_Witness ==
  /\ now = 250
  /\ next_pull = 200
  /\ global_idx = 100

\* ---- window buffer --------------------------------------------------------------
\* The samples first..last as the rows of a buffer.
Samples(first, last) == IF last < first THEN <<>> ELSE << <<first, last>> >>

\* C18: after any sequence of pulls the buffer holds the most recent samples
\* ingested, in order and without a gap; it has at most
\* max(2 * win_len, win_len + fs) rows, and at least win_len rows once win_len
\* samples have been ingested; the window of every evaluation is the most
\* recent win_len samples.
C18_BufferIsRecentSuffix ==
  /\ buf = Samples(global_idx - Rows(buf) + 1, global_idx)
  /\ buflen = Rows(buf)
  /\ Rows(buf) <= Max(2 * win_len, win_len + FS)
  /\ global_idx >= win_len => Rows(buf) >= win_len
  /\ \A i \in 1..Len(evals) :
       evals[i].win = Samples(evals[i].idx - win_len + 1, evals[i].idx)

C18_Witness ==
  /\ Rows(buf) = 250
  /\ buf[1][1] > 1
  /\ Len(evals) >= 2
  /\ evals[Len(evals)].idx = global_idx

\* ---- frames and the pipeline ---------------------------------------------------
\* C19: no step of a connection handler changes the window buffer,
\* global_idx, next_gate, next_pull or the last broadcast second, whatever the
\* frame (subscribe, set_mode, reset_norm, malformed); a subscribe frame also
\* leaves Mode, NormState and the subscriber set alone and starts no
\* broadcast.
C19_HandlersLeavePipelineAlone ==
  /\ [][(io'.dir = "in" \/ hpc' # hpc) =>
          UNCHANGED <<buf, buflen, global_idx, next_gate, next_pull, last_sec>>]_vars
  /\ [][(/\ io'.dir = "in"
         /\ io'.msg.parse = "object"
         /\ io'.msg.type = "subscribe") =>
          (UNCHANGED <<mode, Emin, Emax, clients, bc>> /\ hpc' = hpc)]_vars

C19_Witness ==
  /\ Handled
  /\ io.msg.type = "subscribe"
  /\ evals # <<>>
  /\ last_sec = 2
  /\ next_gate = 512

\* ---- engagement -----------------------------------------------------------------
\* The band [lo, hi) holds no frequency k * fs / n of a window of n rows.
NoBin(n, lo, hi) == \A k \in 0..(n \div 2) : k * FS < lo * n \/ k * FS >= hi * n

\* C20: the engagement computation yields a result for every window: all
\* zeros for an empty one, zero power for a band without a frequency bin, and
\* E = beta / (alpha + theta) when alpha + theta > 1e-12, E = 0 otherwise, so
\* that no division by zero occurs.
C20_EngagementOnDegenerateInput ==
  (calc.fn = "engagement" /\ calc.done) =>
    /\ DOMAIN calc.out = {"E", "alpha", "theta", "beta"}
    /\ (calc.n = 0 \/ calc.C = 0) =>
         calc.out = [E |-> <<0, 1>>, alpha |-> 0, theta |-> 0, beta |-> 0]
    /\ NoBin(calc.n, 4, 7) => calc.out.theta = 0
    /\ NoBin(calc.n, 7, 11) => calc.out.alpha = 0
    /\ NoBin(calc.n, 11, 20) => calc.out.beta = 0
    /\ calc.out.E[2] > 0
    /\ IF calc.out.alpha + calc.out.theta > EPS
       THEN calc.out.E[1] * (calc.out.alpha + calc.out.theta)
              = calc.out.beta * calc.out.E[2]
       ELSE calc.out.E[1] = 0

\* A window of 40 rows: power in beta, none in alpha and theta, E = 0.
C20_Witness ==
  /\ calc.fn = "engagement"
  /\ calc.done
  /\ calc.n = 40 /\ calc.C = 2
  /\ calc.out.beta > 0
  /\ calc.out.alpha + calc.out.theta = 0
  /\ calc.out.E = <<0, 1>>

\* ---- bounds in outgoing messages --------------------------------------------------
\* The step hands a newly built message to the gather of caller k.
Built(k) == bc[k].payload = NoMsg /\ bc'[k].payload # NoMsg

\* The bounds of an engagement message are numbers around its raw value.
BoundsAround(msg) ==
  /\ msg.Emin # None /\ msg.Emax # None
  /\ msg.Emin <= msg.E /\ msg.E <= msg.Emax

\* C21: every engagement message carries non-null bounds with
\* Emin <= E <= Emax, the bounds being NormState as it is when the message is
\* built, whatever reset_norm handlers ran before the build or run between
\* the build and the write; in every message that carries bounds, a bound is
\* null exactly when the NormState bound is uninitialized at the build.
C21_EngagementBoundsAroundE ==
  /\ [][\A k \in Callers :
          (Built(k) /\ "Emin" \in DOMAIN bc'[k].payload) =>
             /\ bc'[k].payload.Emin = (IF Emin' = PosInf THEN None ELSE Emin')
             /\ bc'[k].payload.Emax = (IF Emax' = NegInf THEN None ELSE Emax')
             /\ bc'[k].payload.type = "engagement" =>
                  (k = LOOP /\ BoundsAround(bc'[k].payload))]_vars
  /\ [](\A k \in Callers :
          bc[k].payload.type = "engagement" => BoundsAround(bc[k].payload))
  /\ []((io.dir = "out" /\ io.msg.type = "engagement") => BoundsAround(io.msg))

\* An engagement message with distinct bounds is written after a reset_norm
\* has emptied NormState.
C21_Witness ==
  /\ Broadcasted
  /\ io.msg.type = "engagement"
  /\ io.msg.Emin < io.msg.Emax
  /\ io.ok # {}
  /\ Emin = PosInf /\ Emax = NegInf
  /\ Len(evals) >= 2

\* ---- the gate ------------------------------------------------------------------------
\* The step is a cycle of the loop that ends having performed an evaluation:
\* the one just recorded, or the one whose broadcast the loop was awaiting.
EvaluatedCycle ==
  /\ evals' # <<>>
  /\ evals'[Len(evals')].idx = global_idx'
  /\ Len(evals') = Len(evals) + 1 \/ (lpc = "bcast" /\ evals' = evals)

\* C22: next_gate is a positive multiple of the gate stride in every
\* reachable state and never decreases; it changes only in a cycle that
\* performed an evaluation, so a cycle in which global_idx >= next_gate
\* without a full window leaves it pending, and a cycle in which
\* global_idx >= next_gate with a full window performs the evaluation.
C22_GateDeferredNotSkipped ==
  /\ [](next_gate > 0 /\ next_gate % GATE_STRIDE = 0)
  /\ [][next_gate' >= next_gate]_vars
  /\ [][next_gate' # next_gate => EvaluatedCycle]_vars
  /\ [][(lpc = "run" /\ global_idx' # global_idx /\ global_idx' >= next_gate) =>
          IF buflen' >= win_len /\ buflen' > 0
          THEN Len(evals') = Len(evals) + 1 /\ evals'[Len(evals')].idx = global_idx'
          ELSE next_gate' = next_gate /\ evals' = evals]_vars

\* Two evaluations, the second having jumped over a multiple of the stride,
\* then a cycle that pulled samples and left the gate alone.
C22_Witness ==
  /\ lpc = "run"
  /\ Len(evals) = 2
  /\ evals[2].idx = 800
  /\ global_idx = 900
  /\ next_gate = 4 * GATE_STRIDE

\* ---- the pull schedule after a pull ------------------------------------------------
\* C23: right after every pull performed at `now`, next_pull is at most one
\* pull period behind `now` and strictly greater than it was before the
\* pull, however long the loop was stalled before it.
C23_ScheduleAtMostOnePeriodBehind ==
  [][PullStep =>
       /\ now' - next_pull' <= EEG_PULL_PERIOD_MS
       /\ next_pull' > next_pull]_vars

\* A pull after a stall of more than two periods: next_pull was snapped to
\* `now`.
C23_Witness ==
  /\ now = 450
  /\ next_pull = 450
  /\ global_idx = 100

\* ---- the greeting comes first ------------------------------------------------------
\* C24: the hello is the first message sent to each subscriber: the step that
\* adds a connection to the subscriber set writes the hello to it, no
\* broadcast that is pending at that step goes to it, and a broadcast of the
\* loop or of another handler is handed to the connection only in a later
\* step, so behind the hello.
C24_HelloBeforeAnyBroadcast ==
  /\ [][\A c \in Conn :
          (c \notin clients /\ c \in clients') =>
             /\ hpc[c] = "idle"
             /\ io'.dir = "out" /\ io'.msg.type = "hello"
             /\ io'.to = {c} /\ io'.ok = {c}
             /\ \A k \in Callers : c \notin bc'[k].pending]_vars
  /\ [][\A c \in Conn :
          (io'.dir = "out" /\ io'.msg.type # "hello" /\ c \in io'.to) =>
             hpc[c] # "idle"]_vars
  /\ [](\A c \in Conn : hpc[c] = "idle" =>
          (c \notin clients /\ \A k \in Callers : c \notin bc[k].pending))
  /\ [][\A c \in Conn : hpc[c] # "idle" => hpc'[c] # "idle"]_vars

\* An engagement broadcast of the loop is written to the last connection
\* while its handler still awaits the completion of its hello.
C24_Witness ==
  /\ Broadcasted
  /\ io.who = LOOP
  /\ io.msg.type = "engagement"
  /\ NConn \in io.ok
  /\ hpc[NConn] = "hello"

====
